---- MODULE Spec2Model ----
(***************************************************************************)
(* Storage Security Command Protocol bindings of uefi-rs.                  *)
(*                                                                         *)
(* Two bindings of the same firmware protocol are modelled:                *)
(*   SecurityCommand         src/uefi/src/proto/media/security.rs          *)
(*   StorageSecurityCommand  src/uefi/src/proto/media/security_cmd.rs      *)
(* Each exposes a receive and a send wrapper that marshals the caller's    *)
(* arguments into one call of a firmware function pointer and turns the    *)
(* returned Status into a Result.  The firmware is the environment: the    *)
(* status it returns and the value it stores in the actual-length slot are *)
(* chosen nondeterministically, the length it reports is not assumed to    *)
(* respect the capacity it was given.                                      *)
(***************************************************************************)
EXTENDS Integers, Sequences, FiniteSets, TLC

\* Longest caller buffer of the general specification.
MaxCap == 2

(***************************************************************************)
(* Values                                                                  *)
(***************************************************************************)

\* The two protocol bindings (one channel object is of one of them).
Bindings == {"SecurityCommand", "StorageSecurityCommand"}

\* Status codes the firmware entry points are documented to return.
Statuses ==
    {"SUCCESS", "WARN_BUFFER_TOO_SMALL", "BUFFER_TOO_SMALL", "UNSUPPORTED",
     "DEVICE_ERROR", "NO_MEDIA", "MEDIA_CHANGED", "INVALID_PARAMETER", "TIMEOUT"}

\* (media_id: u32, timeout: u64, protocol: u8, protocol_specific: u16) as the
\* caller passes them.  The values are pairwise distinguishable where it
\* matters: an exchange of two arguments shows.
Descriptors ==
    { [media_id |-> 0, timeout |-> 0,  protocol |-> 1, protocol_specific |-> 0],
      [media_id |-> 7, timeout |-> 50, protocol |-> 2, protocol_specific |-> 513],
      [media_id |-> 7, timeout |-> 0,  protocol |-> 1, protocol_specific |-> 513],
      [media_id |-> 0, timeout |-> 50, protocol |-> 2, protocol_specific |-> 0] }

\* A Rust slice: a start address, never null (an empty slice has a dangling,
\* aligned, non-null pointer), and its bytes.
Slice(addr, bytes) == [addr |-> addr, bytes |-> bytes]

\* Command payloads handed to send: the first n bytes of 0xAA, 0x01, 0x01, ...
SendBuffers ==
    { Slice(4096 + 16 * n, [i \in 1..n |-> IF i = 1 THEN 170 ELSE 1]) : n \in 0..MaxCap }

\* Zeroed destination buffers handed to receive.
RecvBuffers ==
    { Slice(8192 + 16 * n, [i \in 1..n |-> 0]) : n \in 0..MaxCap }

\* What the firmware's receive entry point does with a buffer of the given
\* capacity: the status it returns and the value it stores through xfer_size.
FwRecvResponses(cap) ==
    { [status |-> st, xfer |-> x] : st \in Statuses, x \in 0..(cap + 1) }

\* What the firmware's send entry point does: it returns a status only.
FwSendResponses == { [status |-> st, xfer |-> 0] : st \in Statuses }

\* The buffer after the firmware's receive: it stores 0xEE in the bytes it
\* transferred, never past the capacity it was given.
FwWritten(bytes, x) ==
    [i \in 1..Len(bytes) |-> IF i <= x THEN 238 ELSE bytes[i]]

(***************************************************************************)
(* Result<T, Error<()>>                                                    *)
(***************************************************************************)

\* uefi::Error<()>: the status and no data.
Error(st) == [status |-> st, data |-> <<>>]

\* Ok(()) of send.
OkUnit == [kind |-> "ok", status |-> "none", count |-> <<>>, slice |-> <<>>]

\* Ok(n) of SecurityCommand::recv_data.
OkCount(n) == [kind |-> "ok", status |-> "none", count |-> <<n>>, slice |-> <<>>]

\* Ok(&data[..n]) of StorageSecurityCommand::receive_data.
OkSlice(s) == [kind |-> "ok", status |-> "none", count |-> <<>>, slice |-> <<s>>]

\* Err(e): the error's status, no count and no slice.
Err(e) == [kind |-> "err", status |-> e.status, count |-> <<>>, slice |-> <<>>]

\* The call does not return: a slice index out of range panics.
Panic == [kind |-> "panic", status |-> "none", count |-> <<>>, slice |-> <<>>]

\* No call has been made yet.
NoResult == [kind |-> "none", status |-> "none", count |-> <<>>, slice |-> <<>>]

\* Status::is_success
is_success(st) == st = "SUCCESS"

\* StatusExt::to_result
to_result(st) == IF is_success(st) THEN OkUnit ELSE Err(Error(st))

\* StatusExt::to_result_with_val: the value is produced on success only.
to_result_with_val(st, val) == IF is_success(st) THEN val ELSE Err(Error(st))

\* impl From<Status> for Result<(), ()>
status_into_result(st) == IF is_success(st) THEN OkUnit ELSE Err(Error(st))

\* &data[..actual_size]: the leading bytes, or a panic when out of range.
SliceTo(bytes, n) ==
    IF n <= Len(bytes) THEN OkSlice(SubSeq(bytes, 1, n)) ELSE Panic

(***************************************************************************)
(* The wrappers.  Each takes the channel (self), the caller's arguments    *)
(* and the firmware's response to the one call it makes, and yields the    *)
(* channel afterwards, the firmware invocations made and the result.       *)
(***************************************************************************)

\* The protocol table behind a channel: two function pointers.
ProtocolTable(b) ==
    IF b = "SecurityCommand"
    THEN [recv |-> "recv_data", send |-> "send_data"]
    ELSE [recv |-> "receive_data", send |-> "send_data"]

\* One invocation of a firmware entry point, arguments in ABI order.
FwCall(entry, media_id, timeout, proto, proto_data, len, buffer, xfer_size) ==
    [entry |-> entry, media_id |-> media_id, timeout |-> timeout,
     security_protocol |-> proto, security_protocol_data |-> proto_data,
     len |-> len, buffer |-> buffer, xfer_size |-> xfer_size]

\* ---- Variants of the wrappers, each with one plausible slip ----

\* recv_data taking every non-error status (a warning too) for success.
SecurityCommand_recv_data_WarningIsOk(self, d, buf, fwr) ==
    [self   |-> self,
     calls  |-> << FwCall(self.recv, d.media_id, d.timeout, d.protocol,
                          d.protocol_specific, Len(buf.bytes), buf.addr, <<0>>) >>,
     result |-> IF fwr.status \in {"SUCCESS", "WARN_BUFFER_TOO_SMALL"}
                THEN OkCount(fwr.xfer)
                ELSE Err(Error(fwr.status))]

\* send_data handing the firmware a null pointer for an empty payload.
SecurityCommand_send_data_NullWhenEmpty(self, d, buf, fwr) ==
    [self   |-> self,
     calls  |-> << FwCall(self.send, d.media_id, d.timeout, d.protocol,
                          d.protocol_specific, Len(buf.bytes),
                          IF buf.bytes = <<>> THEN 0 ELSE buf.addr, <<>>) >>,
     result |-> status_into_result(fwr.status)]

\* receive_data producing the partial slice when the buffer was too small.
StorageSecurityCommand_receive_data_PartialOnTooSmall(self, d, buf, fwr) ==
    [self   |-> self,
     calls  |-> << FwCall(self.recv, d.media_id, d.timeout, d.protocol,
                          d.protocol_specific, Len(buf.bytes), buf.addr, <<0>>) >>,
     result |-> IF fwr.status \in {"SUCCESS", "BUFFER_TOO_SMALL"}
                THEN SliceTo(FwWritten(buf.bytes, fwr.xfer), fwr.xfer)
                ELSE Err(Error(fwr.status))]

\* receive_data replacing the caller's media_id by a default of 0.
StorageSecurityCommand_receive_data_DefaultMediaId(self, d, buf, fwr) ==
    [self   |-> self,
     calls  |-> << FwCall(self.recv, 0, d.timeout, d.protocol,
                          d.protocol_specific, Len(buf.bytes), buf.addr, <<0>>) >>,
     result |-> to_result_with_val(fwr.status,
                    SliceTo(FwWritten(buf.bytes, fwr.xfer), fwr.xfer))]

\* receive_data returning the whole buffer, &data[..], on success.
StorageSecurityCommand_receive_data_WholeBuffer(self, d, buf, fwr) ==
    [self   |-> self,
     calls  |-> << FwCall(self.recv, d.media_id, d.timeout, d.protocol,
                          d.protocol_specific, Len(buf.bytes), buf.addr, <<0>>) >>,
     result |-> to_result_with_val(fwr.status,
                    OkSlice(FwWritten(buf.bytes, fwr.xfer)))]

\* send_data remembering a failure in the channel object.
StorageSecurityCommand_send_data_Sticky(self, d, buf, fwr) ==
    [self   |-> IF fwr.status = "SUCCESS" THEN self
                ELSE [self EXCEPT !.recv = "failed"],
     calls  |-> << FwCall(self.send, d.media_id, d.timeout, d.protocol,
                          d.protocol_specific, Len(buf.bytes), buf.addr, <<>>) >>,
     result |-> to_result(fwr.status)]

\* send_data issuing the command a second time after a timeout.
StorageSecurityCommand_send_data_Retry(self, d, buf, fwr) ==
    LET c == FwCall(self.send, d.media_id, d.timeout, d.protocol,
                    d.protocol_specific, Len(buf.bytes), buf.addr, <<>>)
    IN  [self   |-> self,
         calls  |-> IF fwr.status = "TIMEOUT" THEN <<c, c>> ELSE <<c>>,
         result |-> to_result(fwr.status)]

\* send_data refusing a timeout of 0 itself, without calling the firmware.
StorageSecurityCommand_send_data_RejectZeroTimeout(self, d, buf, fwr) ==
    IF d.timeout = 0
    THEN [self |-> self, calls |-> <<>>, result |-> Err(Error("TIMEOUT"))]
    ELSE [self   |-> self,
          calls  |-> << FwCall(self.send, d.media_id, d.timeout, d.protocol,
                               d.protocol_specific, Len(buf.bytes), buf.addr, <<>>) >>,
          result |-> to_result(fwr.status)]

\* SecurityCommand::recv_data
SecurityCommand_recv_data(self, d, buf, fwr) ==
    LET xfer_len == 0
    IN  [self   |-> self,
         calls  |-> << FwCall(self.recv, d.media_id, d.timeout, d.protocol,
                              d.protocol_specific, Len(buf.bytes), buf.addr,
                              <<xfer_len>>) >>,
         result |-> IF fwr.status = "SUCCESS"
                    THEN OkCount(fwr.xfer)
                    ELSE Err(Error(fwr.status))]

\* SecurityCommand::send_data
SecurityCommand_send_data(self, d, buf, fwr) ==
    [self   |-> self,
     calls  |-> << FwCall(self.send, d.media_id, d.timeout, d.protocol,
                          d.protocol_specific, Len(buf.bytes), buf.addr, <<>>) >>,
     result |-> status_into_result(fwr.status)]

\* StorageSecurityCommand::receive_data
StorageSecurityCommand_receive_data(self, d, buf, fwr) ==
    LET actual_size == 0
    IN  [self   |-> self,
         calls  |-> << FwCall(self.recv, d.media_id, d.timeout, d.protocol,
                              d.protocol_specific, Len(buf.bytes), buf.addr,
                              <<actual_size>>) >>,
         result |-> to_result_with_val(fwr.status,
                        SliceTo(FwWritten(buf.bytes, fwr.xfer), fwr.xfer))]

\* StorageSecurityCommand::send_data
StorageSecurityCommand_send_data(self, d, buf, fwr) ==
    [self   |-> self,
     calls  |-> << FwCall(self.send, d.media_id, d.timeout, d.protocol,
                          d.protocol_specific, Len(buf.bytes), buf.addr, <<>>) >>,
     result |-> to_result(fwr.status)]

(***************************************************************************)
(* State                                                                   *)
(***************************************************************************)
VARIABLES
    binding,    \* which binding the channel is
    chan,       \* the channel object (self): its protocol table
    op,         \* the last call: "none", "send" or "recv"
    desc,       \* its descriptor arguments
    buffer,     \* the slice it was given
    fw,         \* what the firmware returned for it
    calls,      \* the firmware invocations it made
    data,       \* the caller's buffer after it
    result,     \* what it returned
    twin,       \* what the other binding returns for the same call
    prev        \* the call before it: op, firmware status, kind of result

vars == <<binding, chan, op, desc, buffer, fw, calls, data, result, twin, prev>>

Init ==
    /\ binding \in Bindings
    /\ chan = ProtocolTable(binding)
    /\ op = "none"
    /\ desc = [media_id |-> 0, timeout |-> 0, protocol |-> 0, protocol_specific |-> 0]
    /\ buffer = Slice(4096, <<>>)
    /\ fw = [status |-> "none", xfer |-> 0]
    /\ calls = <<>>
    /\ data = <<>>
    /\ result = NoResult
    /\ twin = NoResult
    /\ prev = [op |-> "none", status |-> "none", kind |-> "none"]

\* One call of a wrapper: out is what the wrapper of this channel's binding
\* yields, other what the other binding's wrapper yields for the same
\* arguments and the same firmware response.
Call(o, d, buf, fwr, after, out, other) ==
    /\ binding' = binding
    /\ chan' = out.self
    /\ op' = o
    /\ desc' = d
    /\ buffer' = buf
    /\ fw' = fwr
    /\ calls' = out.calls
    /\ data' = after
    /\ result' = out.result
    /\ twin' = other.result
    /\ prev' = [op |-> op, status |-> fw.status, kind |-> result.kind]

SecRecvData ==
    /\ binding = "SecurityCommand"
    /\ \E d \in Descriptors, buf \in RecvBuffers :
         \E fwr \in FwRecvResponses(Len(buf.bytes)) :
            Call("recv", d, buf, fwr, FwWritten(buf.bytes, fwr.xfer),
                 SecurityCommand_recv_data(chan, d, buf, fwr),
                 StorageSecurityCommand_receive_data(
                     ProtocolTable("StorageSecurityCommand"), d, buf, fwr))

SecSendData ==
    /\ binding = "SecurityCommand"
    /\ \E d \in Descriptors, buf \in SendBuffers, fwr \in FwSendResponses :
         Call("send", d, buf, fwr, buf.bytes,
              SecurityCommand_send_data(chan, d, buf, fwr),
              StorageSecurityCommand_send_data(
                  ProtocolTable("StorageSecurityCommand"), d, buf, fwr))

CmdReceiveData ==
    /\ binding = "StorageSecurityCommand"
    /\ \E d \in Descriptors, buf \in RecvBuffers :
         \E fwr \in FwRecvResponses(Len(buf.bytes)) :
            Call("recv", d, buf, fwr, FwWritten(buf.bytes, fwr.xfer),
                 StorageSecurityCommand_receive_data(chan, d, buf, fwr),
                 SecurityCommand_recv_data(
                     ProtocolTable("SecurityCommand"), d, buf, fwr))

CmdSendData ==
    /\ binding = "StorageSecurityCommand"
    /\ \E d \in Descriptors, buf \in SendBuffers, fwr \in FwSendResponses :
         Call("send", d, buf, fwr, buf.bytes,
              StorageSecurityCommand_send_data(chan, d, buf, fwr),
              SecurityCommand_send_data(
                  ProtocolTable("SecurityCommand"), d, buf, fwr))

Next == SecRecvData \/ SecSendData \/ CmdReceiveData \/ CmdSendData

Spec == Init /\ [][Next]_vars

(***************************************************************************)
(* The round trip of the spec's scenario, on StorageSecurityCommand: one   *)
(* send of the payload 0xAA 0x01 with protocol 0x01 and protocol_specific  *)
(* 0x0000, then one receive into an 8-byte buffer with the same            *)
(* descriptor.  The device answers each as it likes.                       *)
(***************************************************************************)

RtPayload == <<170, 1>>

RtBuffer == <<0, 0, 0, 0, 0, 0, 0, 0>>

RtDescriptors ==
    { [media_id |-> m, timeout |-> t, protocol |-> 1, protocol_specific |-> 0] :
        m \in {0, 7}, t \in {0, 50} }

RtInit == Init /\ binding = "StorageSecurityCommand"

RtSend ==
    /\ op = "none"
    /\ \E d \in RtDescriptors, fwr \in FwSendResponses :
         Call("send", d, Slice(4096, RtPayload), fwr, RtPayload,
              StorageSecurityCommand_send_data(chan, d, Slice(4096, RtPayload), fwr),
              SecurityCommand_send_data(
                  ProtocolTable("SecurityCommand"), d, Slice(4096, RtPayload), fwr))

RtReceive ==
    /\ op = "send"
    /\ \E fwr \in FwRecvResponses(Len(RtBuffer)) :
         Call("recv", desc, Slice(8192, RtBuffer), fwr, FwWritten(RtBuffer, fwr.xfer),
              StorageSecurityCommand_receive_data(chan, desc, Slice(8192, RtBuffer), fwr),
              SecurityCommand_recv_data(
                  ProtocolTable("SecurityCommand"), desc, Slice(8192, RtBuffer), fwr))

RtNext == RtSend \/ RtReceive

SpecRoundTrip == RtInit /\ [][RtNext]_vars

(***************************************************************************)
(* Properties                                                              *)
(***************************************************************************)

\* The capacity of the buffer the last call was given.
Capacity == Len(buffer.bytes)

\* The length a successful receive delivered: the count of recv_data, the
\* length of the slice of receive_data.
DeliveredLen(r) == IF r.count # <<>> THEN r.count[1] ELSE Len(r.slice[1])

\* The last call was a receive_data to which the firmware reported more bytes
\* than the buffer holds.
OversizeReceiveData ==
    /\ binding = "StorageSecurityCommand"
    /\ op = "recv"
    /\ fw.xfer > Capacity

\* The outcome of the last call written out from its own arguments and the
\* firmware's response to it alone.
OutcomeOfThisCall ==
    IF fw.status # "SUCCESS" THEN
        /\ result.kind = "err"
        /\ result.status = fw.status
        /\ result.count = <<>>
        /\ result.slice = <<>>
    ELSE IF op = "send" THEN
        /\ result.kind = "ok"
        /\ result.count = <<>>
        /\ result.slice = <<>>
    ELSE IF binding = "SecurityCommand" THEN
        /\ result.kind = "ok"
        /\ result.count = <<fw.xfer>>
    ELSE IF fw.xfer <= Capacity THEN
        /\ result.kind = "ok"
        /\ result.slice = <<SubSeq(data, 1, fw.xfer)>>
    ELSE
        result.kind = "panic"

\* C1: every receive that returns success delivers an actual length (the
\* count of recv_data, the length of the slice of receive_data) that is at
\* most the capacity of the buffer passed in, whatever the firmware wrote
\* into the actual-length slot.
C1_ActualLengthWithinCapacity ==
    (op = "recv" /\ result.kind = "ok") => DeliveredLen(result) <= Capacity

CallerVisibleLen ==
    IF result.slice # <<>> THEN Len(result.slice[1]) ELSE Len(data)

\* C3, as claimed: on BUFFER_TOO_SMALL the receive surfaces BufferTooSmall and
\* the slice the caller sees is bounded by the partial length the firmware
\* reported.
C3_TooSmallSliceBoundedByReported ==
    (op = "recv" /\ fw.status = "BUFFER_TOO_SMALL") =>
        /\ result.kind = "err"
        /\ result.status = "BUFFER_TOO_SMALL"
        /\ CallerVisibleLen <= fw.xfer

\* C3, amended: on BUFFER_TOO_SMALL the receive surfaces BufferTooSmall as an
\* error that carries neither a length nor a slice: the partial length the
\* firmware reported is dropped and the caller is left with its whole buffer.
C3_TooSmallCarriesNoLength ==
    (op = "recv" /\ fw.status = "BUFFER_TOO_SMALL") =>
        /\ result.kind = "err"
        /\ result.status = "BUFFER_TOO_SMALL"
        /\ result.count = <<>>
        /\ result.slice = <<>>
        /\ CallerVisibleLen = Capacity

\* C3 witness: the firmware answered a receive into a 2-byte buffer with
\* BUFFER_TOO_SMALL and a partial length of 1.
C3_Witness ==
    /\ op = "recv" /\ fw.status = "BUFFER_TOO_SMALL"
    /\ Capacity = 2 /\ fw.xfer = 1
    /\ result.kind = "err"

C5_ExactlyOneFirmwareCall ==
    /\ op = "send" =>
          (Len(calls) = 1 /\ calls[1].entry = "send_data")
    /\ op = "recv" =>
          (Len(calls) = 1 /\ calls[1].entry =
              (IF binding = "SecurityCommand" THEN "recv_data" ELSE "receive_data"))

\* C5 witness: a send the firmware answered with TIMEOUT, after a receive it
\* answered with BUFFER_TOO_SMALL.
C5_Witness ==
    /\ prev.op = "recv" /\ prev.status = "BUFFER_TOO_SMALL"
    /\ op = "send" /\ fw.status = "TIMEOUT"
    /\ binding = "StorageSecurityCommand" /\ result.kind = "err"

\* C6: the firmware receives the caller's media_id, timeout, protocol and
\* protocol_specific unchanged and in that order, the buffer's length as the
\* length and the buffer's start address as the pointer; a receive also
\* passes an actual-length slot holding 0, a send passes none.
C6_ArgumentsPassedUnchanged ==
    op # "none" =>
        /\ Len(calls) >= 1
        /\ \A i \in 1..Len(calls) :
              /\ calls[i].media_id = desc.media_id
              /\ calls[i].timeout = desc.timeout
              /\ calls[i].security_protocol = desc.protocol
              /\ calls[i].security_protocol_data = desc.protocol_specific
              /\ calls[i].len = Capacity
              /\ calls[i].buffer = buffer.addr
              /\ calls[i].xfer_size = (IF op = "recv" THEN <<0>> ELSE <<>>)

\* C6 witness: a receive_data with media_id 7, timeout 50, protocol 2 and
\* protocol_specific 513 into a 2-byte buffer reached the firmware.
C6_Witness ==
    /\ binding = "StorageSecurityCommand" /\ op = "recv"
    /\ desc.media_id = 7 /\ desc.timeout = 50
    /\ desc.protocol = 2 /\ desc.protocol_specific = 513
    /\ Capacity = 2 /\ Len(calls) = 1

\* C7: with timeout 0 the firmware is called with timeout 0, and the caller
\* sees Timeout only when the firmware returned TIMEOUT.
C7_ZeroTimeoutPassedThrough ==
    (op # "none" /\ desc.timeout = 0) =>
        /\ Len(calls) >= 1
        /\ \A i \in 1..Len(calls) : calls[i].timeout = 0
        /\ (result.kind = "err" /\ result.status = "TIMEOUT") => fw.status = "TIMEOUT"

\* C7 witness: a send_data with timeout 0 that the firmware accepted.
C7_Witness ==
    /\ binding = "StorageSecurityCommand" /\ op = "send"
    /\ desc.timeout = 0 /\ fw.status = "SUCCESS" /\ result.kind = "ok"

\* C8: a send of an empty buffer still invokes the firmware, with length 0
\* and the slice's non-null pointer, and returns InvalidParameter only when
\* the firmware returned it.
C8_EmptySendReachesFirmware ==
    (op = "send" /\ buffer.bytes = <<>>) =>
        /\ Len(calls) = 1
        /\ calls[1].len = 0
        /\ calls[1].buffer # 0
        /\ calls[1].buffer = buffer.addr
        /\ (result.kind = "err" /\ result.status = "INVALID_PARAMETER")
              => fw.status = "INVALID_PARAMETER"
        /\ fw.status = "SUCCESS" => result.kind = "ok"

\* C8 witness: a send of an empty buffer that the firmware accepted.
C8_Witness ==
    /\ binding = "SecurityCommand" /\ op = "send"
    /\ buffer.bytes = <<>> /\ fw.status = "SUCCESS" /\ result.kind = "ok"

SecResult == IF binding = "SecurityCommand" THEN result ELSE twin
CmdResult == IF binding = "SecurityCommand" THEN twin ELSE result

\* C10: for the same arguments and the same firmware response, recv_data
\* returns Ok(n) exactly when receive_data returns Ok of the leading n bytes
\* of the buffer, both return the same error otherwise, and the two
\* send_data return the same result.
C10_BindingsEquivalent ==
    /\ op = "send" => SecResult = CmdResult
    /\ op = "recv" =>
          /\ (SecResult.kind = "ok") <=> (CmdResult.kind = "ok")
          /\ SecResult.kind = "ok" =>
                /\ Len(CmdResult.slice[1]) = SecResult.count[1]
                /\ CmdResult.slice[1] = SubSeq(data, 1, SecResult.count[1])
          /\ SecResult.kind # "ok" => SecResult = CmdResult

====
